---- MODULE Spec2Model ----
(***************************************************************************)
(* Model of src/app.py, the Streamlit dashboard "Kodaikanal Landslide      *)
(* Detection".  One behaviour is a sequence of script runs in one server   *)
(* process: each run executes the script top to bottom (Earth Engine       *)
(* authentication, cached model load, button handler, sidebar).  What      *)
(* outlives a run is the process environment, /tmp/ee_key.json and the     *)
(* st.cache_resource entry of load_unet_model.                             *)
(*                                                                         *)
(* Arrays are records [h, w, d] with d a function on (0..h-1) \X (0..w-1). *)
(* Raw NDVI values and raw model outputs are integers in tenths; a         *)
(* normalised NDVI value is 0 or 1 (the rasters drawn are two-valued, for  *)
(* which (x - min) / (max - min + 1e-8) is exactly 0.0 or 1.0 in float32). *)
(***************************************************************************)
EXTENDS Integers, Sequences, FiniteSets

\* ------------------------------------------------------------- bounds
\* Largest raster height and width drawn in the tiling specification.
MaxH == 3
MaxW == 3
\* Largest patch size drawn (the script fixes PATCH_SIZE = 128).
MaxPatch == 2
\* Largest raster height a download returns in the whole-script specification.
MaxAppH == 2

\* model.predict(...) > 0.5, in tenths.
THRESHOLD == 5

\* ------------------------------------------------------------- values
Unset == "<unset>"
KEY_EXT == "/content/key.json"
KEY_TMP == "/tmp/ee_key.json"
None == "None"
UNET == "unet_best.h5"

\* Mutant of Truthy: the test is "key_path is not None".
MutIsNotNone(v) == v # Unset

\* bool(key_path): os.getenv gives None when unset; None and "" are falsy.
Truthy(v) == v # Unset /\ v # ""

Cells(h, w) == (0 .. h - 1) \X (0 .. w - 1)
\* The value of an array name before its assignment, and of ndvi_data = None.
NoArray == [h |-> -1, w |-> -1, d |-> <<>>]
Min2(a, b) == IF a < b THEN a ELSE b
SetMin(S) == CHOOSE x \in S : \A y \in S : x <= y
SetMax(S) == CHOOSE x \in S : \A y \in S : x >= y
Values(a) == {a.d[x] : x \in Cells(a.h, a.w)}
Count(s, e) == Cardinality({n \in 1 .. Len(s) : s[n] = e})
Has(s, e) == \E n \in 1 .. Len(s) : s[n] = e
\* Position of the first occurrence of e in s (0 when absent).
First(s, e) ==
    IF Has(s, e)
       THEN CHOOSE n \in 1 .. Len(s) : s[n] = e /\ \A m \in 1 .. n - 1 : s[m] # e
       ELSE 0

VARIABLES
    env,         \* os.environ["GOOGLE_APPLICATION_CREDENTIALS"], or Unset
    keyFile,     \* state of /tmp/ee_key.json: "absent", "partial", "written"
    cache,       \* st.cache_resource entry of load_unet_model: <<>> or <<result>>
    bodyRuns,    \* executions of load_unet_model's body since the cache was last empty
    epochResult, \* what the first such execution returned
    pc,          \* position of the script run
    key_path,    \* line 17
    authPath,    \* "env" or "secrets": the branch of line 18 taken in this run
    model,       \* line 59
    clicked,     \* value of st.button(...) in this run
    log,         \* external calls made and UI elements emitted in this run, in order
    ndvi_array, arrayKind, ndvi_data, ndvi_input,
    PATCH_SIZE, h_ndvi, w_ndvi, full_mask, tiles, coords, i, j,
    y_pred,      \* what model.predict returned (tenths), per tile
    preds_tiles, idx,
    writes       \* pixel assignments made by the reassembly loop: <<r, c, k, a, b>>

procVars == <<env, keyFile, cache, bodyRuns, epochResult>>
runVars == <<pc, key_path, authPath, model, clicked, log>>
fetchVars == <<ndvi_array, arrayKind, ndvi_data, ndvi_input>>
tileVars == <<PATCH_SIZE, h_ndvi, w_ndvi, full_mask, tiles, coords, i, j,
              y_pred, preds_tiles, idx, writes>>
vars == <<procVars, runVars, fetchVars, tileVars>>

Emit(e) == log' = Append(log, e)
Emit2(e, f) == log' = log \o <<e, f>>

\* The state of the per-run names at the top of a run.
FreshRun ==
    /\ pc = "auth"
    /\ key_path = Unset /\ authPath = "none" /\ model = None /\ clicked = FALSE
    /\ log = <<>>
    /\ ndvi_array = NoArray /\ arrayKind = "none"
    /\ ndvi_data = NoArray /\ ndvi_input = NoArray
    /\ PATCH_SIZE = 0 /\ h_ndvi = 0 /\ w_ndvi = 0 /\ full_mask = NoArray
    /\ tiles = <<>> /\ coords = <<>> /\ i = 0 /\ j = 0
    /\ y_pred = <<>> /\ preds_tiles = <<>> /\ idx = 0 /\ writes = {}

Init ==
    /\ env \in {Unset, "", KEY_EXT}
    /\ keyFile = "absent"
    /\ cache = <<>> /\ bodyRuns = 0 /\ epochResult = None
    /\ FreshRun

\* ------------------------------------------- Earth Engine authentication
\* Lines 17-18, 24.
ReadKeyPath ==
    /\ pc = "auth"
    /\ key_path' = env
    /\ authPath' = IF Truthy(env) THEN "env" ELSE "secrets"
    /\ pc' = IF Truthy(env) THEN "ee_init" ELSE "secrets"
    /\ UNCHANGED <<procVars, model, clicked, log, fetchVars, tileVars>>

\* Line 28: json.loads(st.secrets["EE_CREDENTIALS_JSON"]); a missing or
\* malformed secret raises and line 35 reports it.
ParseSecret ==
    /\ pc = "secrets"
    /\ \/ Emit("st.secrets") /\ pc' = "write_key"
       \/ Emit2("st.secrets", "st.error:ee") /\ pc' = "load"
    /\ UNCHANGED <<procVars, key_path, authPath, model, clicked, fetchVars, tileVars>>

\* Lines 29-30: open(..., "w") creates or truncates the file, json.dump fills it.
WriteKey ==
    /\ pc = "write_key"
    /\ \/ keyFile' = "written" /\ Emit("write:ee_key") /\ pc' = "set_env"
       \/ keyFile' \in {keyFile, "partial"} /\ Emit("st.error:ee") /\ pc' = "load"
    /\ UNCHANGED <<env, cache, bodyRuns, epochResult, key_path, authPath, model,
                   clicked, fetchVars, tileVars>>

\* Mutant of SetEnv: the path is kept in a local name, not in os.environ.
MutSetEnvLocal ==
    /\ pc = "set_env"
    /\ Emit("setenv")
    /\ pc' = "ee_init"
    /\ UNCHANGED <<procVars, key_path, authPath, model, clicked, fetchVars, tileVars>>

\* Line 31.
SetEnv ==
    /\ pc = "set_env"
    /\ env' = KEY_TMP
    /\ Emit("setenv")
    /\ pc' = "ee_init"
    /\ UNCHANGED <<keyFile, cache, bodyRuns, epochResult, key_path, authPath, model,
                   clicked, fetchVars, tileVars>>

\* Lines 20-23 and 32-35: ee.Initialize() and the message that follows it.
EeInitialize ==
    /\ pc = "ee_init"
    /\ \/ Emit2("ee.Initialize", "st.success:ee")
       \/ Emit2("ee.Initialize", "st.error:ee")
    /\ pc' = "load"
    /\ UNCHANGED <<procVars, key_path, authPath, model, clicked, fetchVars, tileVars>>

\* ------------------------------------------------------ cached model load
\* Lines 43-57, the body of load_unet_model: the result and its message.
BodyOutcomes ==
    { <<None, "st.error:model_missing">>,    \* lines 44-46
      <<UNET, "st.success:model">>,          \* lines 52-54
      <<None, "st.error:model_load">> }      \* lines 55-57

\* st.cache_resource: a stored result is returned without running the body.
CacheHit(c) == c # <<>>
\* Mutant of CacheStore: the result is not kept.
MutNoStore(c, r) == c

\* st.cache_resource: the entry after the body returned r.
CacheStore(c, r) == <<r>>

\* Lines 39-40, 59: model = load_unet_model() through st.cache_resource.
LoadModel ==
    /\ pc = "load"
    /\ \/ /\ CacheHit(cache)
          /\ model' = cache[1]
          /\ Emit("load:hit")
          /\ UNCHANGED <<cache, bodyRuns, epochResult>>
       \/ /\ ~CacheHit(cache)
          /\ \E o \in BodyOutcomes :
                /\ model' = o[1]
                /\ cache' = CacheStore(cache, o[1])
                /\ Emit2("load:body", o[2])
                /\ epochResult' = IF bodyRuns = 0 THEN o[1] ELSE epochResult
          /\ bodyRuns' = Min2(bodyRuns + 1, 2)
    /\ pc' = "region"
    /\ UNCHANGED <<env, keyFile, key_path, authPath, clicked, fetchVars, tileVars>>

\* The manual refresh: the cache entry is dropped between two runs (here at
\* the top of the next one, before line 17).
ClearCache ==
    /\ pc = "auth"
    /\ cache' = <<>> /\ bodyRuns' = 0 /\ epochResult' = None
    /\ UNCHANGED <<env, keyFile, runVars, fetchVars, tileVars>>

\* Line 64: ee.Geometry.Rectangle(...), outside every try block; an exception
\* here ends the run.
DefineRegion ==
    /\ pc = "region"
    /\ \/ pc' = "button" /\ UNCHANGED log
       \/ pc' = "done" /\ Emit("uncaught")
    /\ UNCHANGED <<procVars, key_path, authPath, model, clicked, fetchVars, tileVars>>

\* Mutant of ModelLoaded: the guard of line 69 is missing.
MutAlwaysLoaded(m) == TRUE

\* Line 69.
ModelLoaded(m) == m # None

\* Lines 66-70: st.button(...) is True in the run its click triggers.
Button ==
    /\ pc = "button"
    /\ \E b \in BOOLEAN :
          /\ clicked' = b
          /\ IF b /\ ModelLoaded(model)
                THEN pc' = "query" /\ Emit2("click", "st.info:fetching")
                ELSE pc' = "sidebar" /\ log' = IF b THEN Append(log, "click") ELSE log
    /\ UNCHANGED <<procVars, key_path, authPath, model, fetchVars, tileVars>>

\* ---------------------------------------------------------- fetch steps
\* Lines 73-77: the image collection query (a client-side object).
BuildQuery ==
    /\ pc = "query"
    /\ Emit("query")
    /\ pc' = "get_url"
    /\ UNCHANGED <<procVars, key_path, authPath, model, clicked, fetchVars, tileVars>>

\* Lines 82-88.
GetDownloadURL ==
    /\ pc = "get_url"
    /\ Emit("getDownloadURL")
    /\ pc' = "urlopen"
    /\ UNCHANGED <<procVars, key_path, authPath, model, clicked, fetchVars, tileVars>>

\* Lines 90-93.
UrlOpen ==
    /\ pc = "urlopen"
    /\ Emit2("st.info:downloading", "urlopen")
    /\ pc' = "np_load"
    /\ UNCHANGED <<procVars, key_path, authPath, model, clicked, fetchVars, tileVars>>

\* The rasters a download may hold: one raw level everywhere, or the first or
\* the last cell above it.
Rasters(h, w) ==
    { [h |-> h, w |-> w, d |-> [x \in Cells(h, w) |-> IF x = hot THEN 7 ELSE 3]] :
        hot \in {<<0, 0>>, <<h - 1, w - 1>>, <<h, w>>} }

\* Line 94: np.load; the array is plain, structured with a field 'NDVI', or
\* structured without it.
NpLoad(Heights, Widths) ==
    /\ pc = "np_load"
    /\ \E h \in Heights, w \in Widths :
          \E a \in Rasters(h, w), k \in {"plain", "NDVI", "other"} :
             ndvi_array' = a /\ arrayKind' = k
    /\ Emit("np.load")
    /\ pc' = "extract"
    /\ UNCHANGED <<procVars, key_path, authPath, model, clicked, ndvi_data, ndvi_input,
                   tileVars>>

\* Lines 97-109: astype(np.float32) of a structured array without the field
\* raises; the inner handler reports it and sets ndvi_data = None.
Extract ==
    /\ pc = "extract"
    /\ \/ /\ arrayKind \in {"plain", "NDVI"}
          /\ ndvi_data' = ndvi_array
          /\ pc' = "normalise"
          /\ UNCHANGED log
       \/ /\ arrayKind = "other"
          /\ ndvi_data' = NoArray
          /\ Emit("st.error:processing")
          /\ pc' = "sidebar"
    /\ UNCHANGED <<procVars, key_path, authPath, model, clicked, ndvi_array, arrayKind,
                   ndvi_input, tileVars>>

\* Lines 111-116.
Normalized(a) ==
    LET lo == SetMin(Values(a))
        hi == SetMax(Values(a))
    IN  [a EXCEPT !.d = [x \in Cells(a.h, a.w) |->
            IF hi - lo > 0 THEN (a.d[x] - lo) \div (hi - lo) ELSE 0]]

\* Lines 110-122: min() of an empty array raises ValueError (line 192 reports it).
Normalise ==
    /\ pc = "normalise"
    /\ IF Values(ndvi_data) = {}
          THEN /\ Emit("st.error:outer") /\ pc' = "sidebar" /\ UNCHANGED ndvi_input
          ELSE /\ ndvi_input' = Normalized(ndvi_data)
               /\ pc' = "tile_init" /\ UNCHANGED log
    /\ UNCHANGED <<procVars, key_path, authPath, model, clicked, ndvi_array, arrayKind,
                   ndvi_data, tileVars>>

\* ------------------------------------------------- tiling and prediction
\* Mutant of TileEnd: the end is not clamped to the raster.
MutTileEndNoClamp(o, P, n) == o + P

\* Lines 137-138: i_end = min(i + PATCH_SIZE, h_ndvi), and the same for j_end.
TileEnd(o, P, n) == Min2(o + P, n)

\* Line 139: a[r0:r1, c0:c1]; a slice end past the array is clipped to it.
Slice(a, r0, r1, c0, c1) ==
    LET h == Min2(r1, a.h) - r0
        w == Min2(c1, a.w) - c0
    IN  [h |-> h, w |-> w, d |-> [x \in Cells(h, w) |-> a.d[<<r0 + x[1], c0 + x[2]>>]]]

\* Mutant of PadTile: the padding is filled with 1 instead of 0.
MutPadOnes(t, P) ==
    IF t.h < P \/ t.w < P
       THEN [h |-> P, w |-> P,
             d |-> [x \in Cells(P, P) |-> IF x \in Cells(t.h, t.w) THEN t.d[x] ELSE 1]]
       ELSE t

\* Mutant of PadTile: an edge tile is left unpadded.
MutNoPad(t, P) == t

\* Lines 142-145: np.pad(tile, ((0, P - h), (0, P - w), (0, 0)), mode='constant').
PadTile(t, P) ==
    IF t.h < P \/ t.w < P
       THEN [h |-> P, w |-> P,
             d |-> [x \in Cells(P, P) |-> IF x \in Cells(t.h, t.w) THEN t.d[x] ELSE 0]]
       ELSE t

\* Line 147.
ShapeOk(t, P) == t.h = P /\ t.w = P

\* Lines 125-132.
TilingSetup ==
    /\ pc = "tile_init"
    /\ \E P \in 1 .. MaxPatch : PATCH_SIZE' = P
    /\ h_ndvi' = ndvi_input.h /\ w_ndvi' = ndvi_input.w
    /\ full_mask' = [h |-> ndvi_input.h, w |-> ndvi_input.w,
                     d |-> [x \in Cells(ndvi_input.h, ndvi_input.w) |-> FALSE]]
    /\ tiles' = <<>> /\ coords' = <<>> /\ i' = 0 /\ j' = 0
    /\ Emit("st.info:predicting")
    /\ pc' = "tiling"
    /\ UNCHANGED <<procVars, key_path, authPath, model, clicked, fetchVars,
                   y_pred, preds_tiles, idx, writes>>

\* Lines 135-151: one iteration of the nested loops, or their exit.
TileLoop ==
    /\ pc = "tiling"
    /\ IF i >= h_ndvi
          THEN pc' = "predict" /\ UNCHANGED <<tiles, coords, i, j, log>>
          ELSE IF j >= w_ndvi
          THEN /\ i' = i + PATCH_SIZE /\ j' = 0
               /\ UNCHANGED <<pc, tiles, coords, log>>
          ELSE LET i_end == TileEnd(i, PATCH_SIZE, h_ndvi)
                   j_end == TileEnd(j, PATCH_SIZE, w_ndvi)
                   tile == Slice(ndvi_input, i, i_end, j, j_end)
                   padded_tile == PadTile(tile, PATCH_SIZE)
               IN  /\ IF ShapeOk(padded_tile, PATCH_SIZE)
                         THEN /\ tiles' = Append(tiles, padded_tile)
                              /\ coords' = Append(coords, <<i, j, i_end - i, j_end - j>>)
                              /\ UNCHANGED log
                         ELSE /\ Emit("st.warning:skip")
                              /\ UNCHANGED <<tiles, coords>>
                   /\ IF j + PATCH_SIZE < w_ndvi
                         THEN j' = j + PATCH_SIZE /\ UNCHANGED i
                         ELSE j' = 0 /\ i' = i + PATCH_SIZE
                   /\ UNCHANGED pc
    /\ UNCHANGED <<procVars, key_path, authPath, model, clicked, fetchVars,
                   PATCH_SIZE, h_ndvi, w_ndvi, full_mask, y_pred, preds_tiles, idx, writes>>

\* The outputs model.predict may return for n tiles of P x P (tenths): one
\* level everywhere, or one entry at another level.
Outputs(n, P) ==
    { [k \in 1 .. n |-> [x \in Cells(P, P) |-> IF <<k, x>> = hot THEN lv ELSE bg]] :
        hot \in ((1 .. n) \X Cells(P, P)) \cup {<<0, <<0, 0>>>>},
        lv \in {1, 5, 9}, bg \in {1, 9} }

\* Line 156: ... > 0.5.
Above(y) == y > THRESHOLD

\* Mutant of PredTile: the first tile's prediction is read for every idx.
MutPredTileFirst(p, k, tile_h, tile_w, P) ==
    LET h == Min2(tile_h, P)
        w == Min2(tile_w, P)
    IN  [h |-> h, w |-> w, d |-> [x \in Cells(h, w) |-> p[1][x]]]

\* Line 161: preds_tiles[idx, :tile_h, :tile_w, 0].
PredTile(p, k, tile_h, tile_w, P) ==
    LET h == Min2(tile_h, P)
        w == Min2(tile_w, P)
    IN  [h |-> h, w |-> w, d |-> [x \in Cells(h, w) |-> p[k][x]]]

\* Line 162: the cells of full_mask[i:i+tile_h, j:j+tile_w].
Target(m, r0, tile_h, c0, tile_w) ==
    {x \in Cells(m.h, m.w) : r0 <= x[1] /\ x[1] < r0 + tile_h
                             /\ c0 <= x[2] /\ x[2] < c0 + tile_w}

\* Line 162: the value's shape equals the target's or broadcasts to it.
Broadcasts(v, h, w) == (v.h = h \/ v.h = 1) /\ (v.w = w \/ v.w = 1)

\* Line 162: the entry of the value that lands on target offset <<a, b>>.
Source(v, a, b) == <<IF v.h = 1 THEN 0 ELSE a, IF v.w = 1 THEN 0 ELSE b>>

\* Lines 154-156 and 188-189.
Predict ==
    /\ pc = "predict"
    /\ IF tiles # <<>>
          THEN /\ \E y \in Outputs(Len(tiles), PATCH_SIZE) :
                     /\ y_pred' = y
                     /\ preds_tiles' = [k \in DOMAIN y |->
                                          [x \in DOMAIN y[k] |-> Above(y[k][x])]]
               /\ Emit("predict")
               /\ idx' = 1
               /\ pc' = "reassemble"
          ELSE /\ Emit("st.warning:no_tiles")
               /\ pc' = "sidebar"
               /\ UNCHANGED <<y_pred, preds_tiles, idx>>
    /\ UNCHANGED <<procVars, key_path, authPath, model, clicked, fetchVars,
                   PATCH_SIZE, h_ndvi, w_ndvi, full_mask, tiles, coords, i, j, writes>>

\* Lines 159-165: one iteration of the reassembly loop, or its exit.
Reassemble ==
    /\ pc = "reassemble"
    /\ IF idx > Len(coords)
          THEN /\ Emit("st.success:prediction")
               /\ pc' = "render"
               /\ UNCHANGED <<full_mask, idx, writes>>
          ELSE LET c == coords[idx]
                   cells == Target(full_mask, c[1], c[3], c[2], c[4])
                   th == Min2(c[1] + c[3], full_mask.h) - Min2(c[1], full_mask.h)
                   tw == Min2(c[2] + c[4], full_mask.w) - Min2(c[2], full_mask.w)
               IN  IF idx > Len(preds_tiles)
                      \/ ~Broadcasts(PredTile(preds_tiles, idx, c[3], c[4], PATCH_SIZE),
                                     th, tw)
                      THEN /\ Emit("st.error:outer")
                           /\ pc' = "sidebar"
                           /\ UNCHANGED <<full_mask, idx, writes>>
                      ELSE LET v == PredTile(preds_tiles, idx, c[3], c[4], PATCH_SIZE)
                           IN  /\ full_mask' = [full_mask EXCEPT !.d =
                                     [x \in Cells(full_mask.h, full_mask.w) |->
                                        IF x \in cells
                                           THEN v.d[Source(v, x[1] - c[1], x[2] - c[2])]
                                           ELSE @[x]]]
                               /\ writes' = writes \cup
                                     {<<x[1], x[2], idx,
                                        Source(v, x[1] - c[1], x[2] - c[2])[1],
                                        Source(v, x[1] - c[1], x[2] - c[2])[2]>> :
                                           x \in cells}
                               /\ idx' = idx + 1
                               /\ UNCHANGED <<pc, log>>
    /\ UNCHANGED <<procVars, key_path, authPath, model, clicked, fetchVars,
                   PATCH_SIZE, h_ndvi, w_ndvi, tiles, coords, i, j, y_pred, preds_tiles>>

\* Lines 170-186: the folium map with the mask overlay, shown by st_folium.
RenderMap ==
    /\ pc = "render"
    /\ Emit2("st.info:displaying", "st_folium")
    /\ pc' = "sidebar"
    /\ UNCHANGED <<procVars, key_path, authPath, model, clicked, fetchVars, tileVars>>

\* The positions inside the try block of lines 71-192, outside the inner one.
TryPcs == {"query", "get_url", "urlopen", "np_load", "normalise", "tile_init",
           "tiling", "predict", "reassemble", "render"}

\* The external call a position makes, which an exception there comes out of.
CallAt(p) ==
    CASE p = "get_url" -> <<"getDownloadURL">>
      [] p = "urlopen" -> <<"urlopen">>
      [] p = "predict" -> <<"predict">>
      [] OTHER -> <<>>

\* Mutant of AfterExcept: the handler ends the run (st.stop()).
MutStopAfterExcept == "done"

\* Mutant of AfterExcept: the handler tries the download again.
MutRetryAfterExcept == "get_url"

\* Where the script continues after the handler of lines 191-192.
AfterExcept == "sidebar"

\* Lines 191-192: an exception raised by the step at pc.
Raise ==
    /\ pc \in TryPcs
    /\ log' = log \o CallAt(pc) \o <<"st.error:outer">>
    /\ pc' = AfterExcept
    /\ UNCHANGED <<procVars, key_path, authPath, model, clicked, fetchVars, tileVars>>

\* Lines 198-205.
Sidebar ==
    /\ pc = "sidebar"
    /\ Emit("st.sidebar")
    /\ pc' = "done"
    /\ UNCHANGED <<procVars, key_path, authPath, model, clicked, fetchVars, tileVars>>

\* A UI interaction reruns the script from the top in the same process.
Rerun ==
    /\ pc = "done"
    /\ pc' = "auth"
    /\ key_path' = Unset /\ authPath' = "none" /\ model' = None /\ clicked' = FALSE
    /\ log' = <<>>
    /\ ndvi_array' = NoArray /\ arrayKind' = "none"
    /\ ndvi_data' = NoArray /\ ndvi_input' = NoArray
    /\ PATCH_SIZE' = 0 /\ h_ndvi' = 0 /\ w_ndvi' = 0 /\ full_mask' = NoArray
    /\ tiles' = <<>> /\ coords' = <<>> /\ i' = 0 /\ j' = 0
    /\ y_pred' = <<>> /\ preds_tiles' = <<>> /\ idx' = 0 /\ writes' = {}
    /\ UNCHANGED procVars

\* The steps of the button handler, over rasters of the given heights and widths.
Pipeline(Heights, Widths) ==
    \/ BuildQuery \/ GetDownloadURL \/ UrlOpen \/ NpLoad(Heights, Widths) \/ Extract
    \/ Normalise \/ TilingSetup \/ TileLoop \/ Predict \/ Reassemble \/ RenderMap
    \/ Raise \/ Sidebar

Next ==
    \/ ReadKeyPath \/ ParseSecret \/ WriteKey \/ SetEnv \/ EeInitialize
    \/ LoadModel \/ ClearCache \/ DefineRegion \/ Button
    \/ Pipeline(0 .. MaxAppH, {0, 1})
    \/ Rerun

\* Runs of the whole script, the downloads being rasters of at most one column.
Spec == Init /\ [][Next]_vars

\* The run of a click with the model loaded, at line 71.
InitClicked ==
    /\ env = KEY_EXT /\ keyFile = "absent"
    /\ cache = <<UNET>> /\ bodyRuns = 1 /\ epochResult = UNET
    /\ pc = "query"
    /\ key_path = KEY_EXT /\ authPath = "env" /\ model = UNET /\ clicked = TRUE
    /\ log = <<"ee.Initialize", "st.success:ee", "load:body", "st.success:model",
               "click", "st.info:fetching">>
    /\ ndvi_array = NoArray /\ arrayKind = "none"
    /\ ndvi_data = NoArray /\ ndvi_input = NoArray
    /\ PATCH_SIZE = 0 /\ h_ndvi = 0 /\ w_ndvi = 0 /\ full_mask = NoArray
    /\ tiles = <<>> /\ coords = <<>> /\ i = 0 /\ j = 0
    /\ y_pred = <<>> /\ preds_tiles = <<>> /\ idx = 0 /\ writes = {}

NextTiling == Pipeline(0 .. MaxH, 0 .. MaxW)

\* One click's handler over the larger rasters.
SpecTiling == InitClicked /\ [][NextTiling]_vars

\* ===================================================== tiling properties
CeilDiv(n, P) == (n + P - 1) \div P
\* The tiling loop of this run has ended.
TilingDone ==
    \/ pc \in {"predict", "reassemble", "render"}
    \/ pc \in {"sidebar", "done"} /\ (Has(log, "predict") \/ Has(log, "st.warning:no_tiles"))
\* The reassembly loop of this run has ended.
Reassembled == Has(log, "st.success:prediction")
\* Index, in loop order, of the tile that holds pixel <<r, c>>.
TileOf(r, c) == (r \div PATCH_SIZE) * CeilDiv(w_ndvi, PATCH_SIZE) + (c \div PATCH_SIZE) + 1

\* C1: once the reassembly loop has run, full_mask is H x W and each pixel
\* (r, c) equals the thresholded (> 0.5) output of the tile with origin
\* (P*(r div P), P*(c div P)) at local offset (r mod P, c mod P).
C1_MaskEqualsPredictionGrid ==
    Reassembled =>
        /\ h_ndvi >= 1 /\ w_ndvi >= 1 /\ PATCH_SIZE >= 1
        /\ full_mask.h = ndvi_input.h /\ full_mask.w = ndvi_input.w
        /\ h_ndvi = ndvi_input.h /\ w_ndvi = ndvi_input.w
        /\ \A x \in Cells(h_ndvi, w_ndvi) :
              LET k == TileOf(x[1], x[2])
              IN  /\ k \in 1 .. Len(coords) /\ k \in DOMAIN y_pred
                  /\ coords[k][1] = PATCH_SIZE * (x[1] \div PATCH_SIZE)
                  /\ coords[k][2] = PATCH_SIZE * (x[2] \div PATCH_SIZE)
                  /\ full_mask.d[x] =
                        (y_pred[k][<<x[1] % PATCH_SIZE, x[2] % PATCH_SIZE>>] > THRESHOLD)

\* A 3 x 3 raster in 2 x 2 tiles, reassembled, whose mask is set only in the
\* corner pixel that the last (1 x 1) edge tile covers.
C1_Witness ==
    /\ Reassembled /\ h_ndvi = 3 /\ w_ndvi = 3 /\ PATCH_SIZE = 2
    /\ full_mask.d[<<2, 2>>] = TRUE
    /\ \A x \in Cells(3, 3) : x # <<2, 2>> => full_mask.d[x] = FALSE

\* The rectangle a coords entry records.
Rect(c) == (c[1] .. c[1] + c[3] - 1) \X (c[2] .. c[2] + c[4] - 1)

\* C2: the rectangles recorded in coords partition the H x W grid (each pixel
\* in exactly one, none reaching outside), and the reassembly loop writes each
\* pixel at most once while it runs and exactly once when it has ended.
C2_TilesPartitionGrid ==
    /\ TilingDone =>
          /\ \A x \in Cells(h_ndvi, w_ndvi) :
                Cardinality({k \in 1 .. Len(coords) : x \in Rect(coords[k])}) = 1
          /\ \A k \in 1 .. Len(coords) :
                /\ coords[k][1] >= 0 /\ coords[k][2] >= 0
                /\ coords[k][3] >= 1 /\ coords[k][4] >= 1
                /\ coords[k][1] + coords[k][3] <= h_ndvi
                /\ coords[k][2] + coords[k][4] <= w_ndvi
    /\ \A x \in Cells(h_ndvi, w_ndvi) :
          Cardinality({t \in writes : t[1] = x[1] /\ t[2] = x[2]}) <= 1
    /\ \A t \in writes : <<t[1], t[2]>> \in Cells(h_ndvi, w_ndvi)
    /\ Reassembled =>
          \A x \in Cells(h_ndvi, w_ndvi) :
             Cardinality({t \in writes : t[1] = x[1] /\ t[2] = x[2]}) = 1

\* A 3 x 2 raster in 2 x 2 tiles: two tiles, the second an edge tile, all six
\* pixels written.
C2_Witness ==
    /\ Reassembled /\ h_ndvi = 3 /\ w_ndvi = 2 /\ PATCH_SIZE = 2
    /\ Len(coords) = 2 /\ coords[2] = <<2, 0, 1, 2>>
    /\ Cardinality(writes) = 6

\* C3: every tile handed to model.predict is P x P, equals the input raster
\* inside its original extent and is 0 outside it; the reassembly loop copies
\* only prediction entries inside the extent, each to the pixel at the same
\* offset from the tile's origin, so the mask holds no output of a padded
\* position.
C3_PaddingAddedAndStripped ==
    /\ Len(tiles) = Len(coords)
    /\ \A k \in 1 .. Len(tiles) :
          /\ tiles[k].h = PATCH_SIZE /\ tiles[k].w = PATCH_SIZE
          /\ \A x \in Cells(PATCH_SIZE, PATCH_SIZE) :
                tiles[k].d[x] =
                   IF x[1] < coords[k][3] /\ x[2] < coords[k][4]
                      THEN ndvi_input.d[<<coords[k][1] + x[1], coords[k][2] + x[2]>>]
                      ELSE 0
    /\ \A t \in writes :
          /\ t[3] \in 1 .. Len(coords)
          /\ t[4] < coords[t[3]][3] /\ t[5] < coords[t[3]][4]
          /\ t[1] = coords[t[3]][1] + t[4] /\ t[2] = coords[t[3]][2] + t[5]
          /\ full_mask.d[<<t[1], t[2]>>] = preds_tiles[t[3]][<<t[4], t[5]>>]
    /\ \A x \in Cells(h_ndvi, w_ndvi) :
          (~\E t \in writes : t[1] = x[1] /\ t[2] = x[2]) => full_mask.d[x] = FALSE

\* An edge tile of a raster whose non-zero cell lies in it, padded, with the
\* model answering above the threshold on the padding and below it inside
\* the extent.
C3_Witness ==
    /\ Reassembled /\ PATCH_SIZE = 2 /\ h_ndvi = 3 /\ w_ndvi = 3
    /\ ndvi_input.d[<<2, 2>>] = 1
    /\ tiles[4].d[<<0, 0>>] = 1 /\ tiles[4].d[<<1, 1>>] = 0
    /\ preds_tiles[4][<<1, 1>>] = TRUE /\ preds_tiles[4][<<0, 0>>] = FALSE
    /\ full_mask.d[<<2, 2>>] = FALSE

\* C9: with H, W, P >= 1 the 'Skipping tile' branch is never taken, the
\* tiling loop leaves len(tiles) = len(coords) = ceil(H/P) * ceil(W/P), the
\* k-th prediction is reassembled at the k-th coordinate, and the 'No valid
\* tiles' warning appears only for a raster with H = 0 or W = 0.
C9_NoTileSkipped ==
    /\ ~Has(log, "st.warning:skip")
    /\ Len(tiles) = Len(coords)
    /\ (TilingDone /\ h_ndvi >= 1 /\ w_ndvi >= 1 /\ PATCH_SIZE >= 1) =>
          Len(tiles) = CeilDiv(h_ndvi, PATCH_SIZE) * CeilDiv(w_ndvi, PATCH_SIZE)
    /\ Has(log, "predict") => Len(y_pred) \in {0, Len(coords)}
    /\ \A t \in writes :
          /\ t[3] \in 1 .. Len(coords)
          /\ t[1] = coords[t[3]][1] + t[4] /\ t[2] = coords[t[3]][2] + t[5]
    /\ Has(log, "st.warning:no_tiles") => (ndvi_data.h = 0 \/ ndvi_data.w = 0)

\* The tiling loop has ended on a 3 x 3 raster with P = 2: four tiles, three
\* of them padded.
C9_Witness ==
    /\ pc = "predict" /\ h_ndvi = 3 /\ w_ndvi = 3 /\ PATCH_SIZE = 2
    /\ Len(tiles) = 4 /\ coords[4] = <<2, 2, 1, 1>>

\* ===================================================== script properties
\* The authentication block of this run has ended.
AuthDone == pc \notin {"auth", "secrets", "write_key", "set_env", "ee_init"}
\* Line 59 of this run has been executed.
PastLoad == AuthDone /\ pc # "load"
EeMessages == Count(log, "st.success:ee") + Count(log, "st.error:ee")

\* The statement of C7 with "the variable is set at the start of the run"
\* read as isSet.
C7_Statement(isSet) ==
    /\ pc # "auth" =>
          /\ authPath \in {"env", "secrets"}
          /\ authPath = "env" <=> isSet
    /\ authPath = "env" =>
          /\ ~Has(log, "st.secrets") /\ ~Has(log, "write:ee_key") /\ ~Has(log, "setenv")
          /\ env = key_path
          /\ AuthDone => Has(log, "ee.Initialize")
    /\ (authPath = "secrets" /\ Has(log, "ee.Initialize")) =>
          /\ 0 < First(log, "st.secrets")
          /\ First(log, "st.secrets") < First(log, "write:ee_key")
          /\ First(log, "write:ee_key") < First(log, "setenv")
          /\ First(log, "setenv") < First(log, "ee.Initialize")
          /\ env = KEY_TMP /\ keyFile = "written"
    /\ Count(log, "ee.Initialize") <= 1
    /\ Has(log, "st.success:ee") => Has(log, "ee.Initialize")
    /\ EeMessages = IF AuthDone THEN 1 ELSE 0

C4_ModelLoadMemoized ==
    /\ bodyRuns <= 1
    /\ PastLoad =>
          /\ bodyRuns = 1
          /\ cache = <<model>>
          /\ model = epochResult
    /\ Has(log, "load:hit") => ~Has(log, "load:body")

\* A run with a button click that was served from the cache.
C4_Witness ==
    /\ pc = "done" /\ Has(log, "load:hit") /\ Has(log, "click")
    /\ bodyRuns = 1 /\ model = UNET

ClickError == Has(log, "st.error:outer") \/ Has(log, "st.error:processing")
ClickErrors == {"st.error:outer", "st.error:processing"}
FirstClickError ==
    CHOOSE n \in 1 .. Len(log) :
       log[n] \in ClickErrors /\ \A m \in 1 .. n - 1 : log[m] \notin ClickErrors

\* C5: a click's handler ends with the map, with the no-tiles warning or with
\* exactly one error message; after the error message nothing of the handler
\* runs (no 'Prediction complete', no map, no second call): the script goes
\* on to the sidebar and ends there.
C5_ErrorsAbortTheClick ==
    /\ Count(log, "st.error:outer") + Count(log, "st.error:processing") <= 1
    /\ ClickError =>
          /\ pc \in {"sidebar", "done"}
          /\ ~Has(log, "st_folium")
          /\ \A n \in FirstClickError + 1 .. Len(log) : log[n] = "st.sidebar"
          /\ pc = "done" => log[Len(log)] = "st.sidebar"
    /\ (Has(log, "st.info:fetching") /\ pc \in {"sidebar", "done"}) =>
          \/ ClickError
          \/ Has(log, "st_folium")
          \/ Has(log, "st.warning:no_tiles")

\* model.predict raised: the error is shown, no completion message and no
\* map, and the sidebar was reached.
C5_Witness ==
    /\ pc = "done" /\ Has(log, "predict") /\ Has(log, "st.error:outer")
    /\ ~Reassembled /\ log[Len(log)] = "st.sidebar"

HandlerSteps ==
    <<"click", "st.info:fetching", "query", "getDownloadURL", "urlopen", "np.load",
      "st.info:predicting", "predict", "st.success:prediction", "st_folium">>

IsHandlerStep(e) == \E n \in 1 .. Len(HandlerSteps) : HandlerSteps[n] = e
\* The handler steps of this run, in the order they happened.
StepsTaken == SelectSeq(log, IsHandlerStep)

\* C6: the steps of a click happen at most once each and in the fixed order
\* query, getDownloadURL, urlopen, np.load, normalise, tiling, one predict,
\* reassembly, map; predict comes after the last tile was built, the map after
\* the last recorded tile was written; a run without a click has none of them.
C6_SinglePassInOrder ==
    /\ Len(StepsTaken) <= Len(HandlerSteps)
    /\ StepsTaken = SubSeq(HandlerSteps, 1, Len(StepsTaken))
    /\ Has(log, "st.info:predicting") =>
          /\ ndvi_input = Normalized(ndvi_data)
          /\ ndvi_data = ndvi_array
    /\ Has(log, "predict") =>
          /\ i >= h_ndvi
          /\ Len(tiles) = CeilDiv(h_ndvi, PATCH_SIZE) * CeilDiv(w_ndvi, PATCH_SIZE)
    /\ Has(log, "st_folium") =>
          /\ idx = Len(coords) + 1
          /\ \A k \in 1 .. Len(coords) : \A x \in Rect(coords[k]) :
                \E t \in writes : t[1] = x[1] /\ t[2] = x[2] /\ t[3] = k
    /\ ~clicked => StepsTaken = <<>>

\* A click that went through to the map over a raster of more than one tile.
C6_Witness ==
    /\ pc = "done" /\ Has(log, "st_folium") /\ Len(coords) >= 2
    /\ Cardinality(writes) = h_ndvi * w_ndvi

\* C8: in a run where load_unet_model returned None a click makes no query,
\* no download, no predict and no map; model.predict is invoked only in a run
\* with a click and a loaded model.
C8_NoModelNoFetch ==
    /\ (PastLoad /\ model = None) =>
          (StepsTaken = <<>> \/ StepsTaken = <<"click">>)
    /\ Has(log, "predict") => (clicked /\ model # None)
    /\ pc \in TryPcs \cup {"extract"} => (clicked /\ model # None)

\* A click in a run whose model is None: the script went straight to the sidebar.
C8_Witness ==
    /\ pc = "done" /\ clicked /\ model = None /\ Has(log, "click")
    /\ Has(log, "st.sidebar")

C10_State ==
    /\ (authPath = "secrets" /\ Has(log, "setenv")) =>
          (env = KEY_TMP /\ keyFile = "written")
    /\ (env = KEY_TMP /\ ~Has(log, "setenv") /\ pc # "auth") =>
          /\ authPath = "env" /\ key_path = KEY_TMP
          /\ ~Has(log, "st.secrets") /\ ~Has(log, "write:ee_key")
    /\ (authPath = "secrets" /\ ~Has(log, "setenv")) =>
          (env = key_path /\ env \in {Unset, ""})
C10_Step ==
    /\ env = KEY_TMP => (env' = KEY_TMP /\ keyFile' = keyFile)
    /\ (pc = "auth" /\ pc' # "auth" /\ env \in {Unset, ""}) =>
          (authPath' = "secrets" /\ pc' = "secrets")
    /\ (pc = "auth" /\ pc' # "auth" /\ env = KEY_TMP) =>
          (authPath' = "env" /\ pc' = "ee_init")

\* C10: once a secrets-path run has written the key file and set the variable
\* (whatever ee.Initialize then did), the variable and the file stay as they
\* are and every later run takes the environment-variable path without
\* reading st.secrets; a secrets-path run that fails before line 31 leaves
\* the variable as it was, and the next run takes the secrets path again.
C10_CredentialsPersist == []C10_State /\ [][C10_Step]_vars

\* A later run that took the environment-variable path on the variable a
\* secrets-path run had set.
C10_Witness ==
    /\ pc = "done" /\ authPath = "env" /\ key_path = KEY_TMP
    /\ env = KEY_TMP /\ keyFile = "written"

====
